---- MODULE Spec2Model ----
(***************************************************************************)
(* Model of the AgentGPT backend (src/backend/main.py): the in-memory      *)
(* agent store, agent creation, and the execute_agent coroutine with its   *)
(* provider client.                                                        *)
(*                                                                         *)
(* Scheduling: the handlers are asyncio coroutines on one event loop.  A   *)
(* coroutine runs without interruption between two awaits, and the only    *)
(* await of execute_agent is the provider call (main.py:619).  So one      *)
(* action of the model is one such uninterrupted segment: from the entry   *)
(* of execute_agent to the first provider call, and from the return of a   *)
(* provider call to the next one (or to the end of the handler).  Several  *)
(* execute requests, for the same agent or for different ones, may be      *)
(* suspended at their provider call at the same time.                      *)
(*                                                                         *)
(* Not modelled: the uuid values (a task is identified by its position in  *)
(* the agent's task list, which never shrinks or reorders), and the        *)
(* created_at / updated_at stamps of tasks and logs.                       *)
(***************************************************************************)
EXTENDS Integers, Sequences, FiniteSets, TLC

\* ------------------------------------------------------------------ bounds
\* The agent identifiers uuid4 can hand out (main.py:464).
MaxAgents == 2
\* The number of execute requests served; they are numbered in the order in
\* which their handlers start.
MaxCalls == 2
\* The number of injected failures (provider failures, exceptions) in a run
\* of the model.
MaxFaults == 1
\* The clock (seconds) and the step by which it advances.
MaxTime == 75
TickSeconds == 75
\* The number of execute requests served in the behaviours that also read
\* (summaries, exports).
MaxReadCalls == 1

AgentIds == 1..MaxAgents
Calls == 1..MaxCalls

\* ------------------------------------------------------- program constants
\* AgentConfig.max_iterations: Field(default=5, ge=1, le=10), main.py:90.
MinIterations == 1
MaxIterations == 10

\* The values of max_iterations the requests of the model carry: the least
\* one, and one above the number of templates.
IterationChoices == {MinIterations, 6}

\* AI_PROVIDERS, main.py:129-151: provider -> permitted models.
AI_PROVIDERS ==
  [cerebras |-> {"llama-4-scout-17b-16e-instruct", "llama3.1-8b", "llama-3.3-70b",
                 "qwen-3-32b", "deepseek-r1-distill-llama-70b"},
   sambanova |-> {"Llama-4-Maverick-17B-128E-Instruct", "Llama-4-Scout-17B-16E-Instruct",
                  "Meta-Llama-3.1-405B-Instruct", "deepseek-v3"}]

\* The five task templates of execute_agent, main.py:576-582, in order.
Templates ==
  << "Research and analyze: ",
     "Gather comprehensive information about: ",
     "Provide detailed insights and findings about: ",
     "Summarize key points and recommendations for: ",
     "Generate final comprehensive report about: " >>

\* f"{template}{goal}": a task text is the pair of its template and the goal.
TaskTexts(goal) == [i \in 1..Len(Templates) |-> <<Templates[i], goal>>]

Min(a, b) == IF a <= b THEN a ELSE b

\* Python's s[:n] for n >= 0.
Slice(s, n) == SubSeq(s, 1, Min(n, Len(s)))

\* The loop without the slice: every template, whatever max_iterations is.
RunTasks_unsliced(config) == TaskTexts(config.goal)

\* tasks[:config['max_iterations']], main.py:589.
RunTasks(config) == Slice(TaskTexts(config.goal), config.max_iterations)

\* --------------------------------------------------------------- requests
\* The bodies of POST /agents the model sends (valid ones).
Requests ==
  { [name |-> "Agent One", goal |-> "X", provider |-> "cerebras",
     model |-> "llama3.1-8b", api_key |-> "key", max_iterations |-> m,
     temperature |-> 7] : m \in IterationChoices }

\* ------------------------------------------------------------------ state
VARIABLES
  agent_data,   \* the store: agent id -> record (main.py:155)
  calls,        \* the execute requests: their position and local variables
  now,          \* the clock, in seconds
  faults,       \* how many failures were injected so far
  reply         \* the answer to the last rejected create, summary or export
                \* request since the last step of an execute

vars == <<agent_data, calls, now, faults, reply>>

NoText == <<>>

\* A log entry (main.py:605-611, 632-638, 648-654, 669-675, 688-694).
\* message is f"{msg}{text}"; detail is str(e), count the number in the final log.
Log(type, msg, text, detail, count) ==
  [log_type |-> type, msg |-> msg, text |-> text, detail |-> detail, count |-> count]

\* The task dict of main.py:592-598; result is <<>> while the key is absent.
NewTask(text) == [text |-> text, status |-> "running", result |-> <<>>]

\* The record create_agent stores, main.py:474-489.  execution_start and
\* execution_time are <<>> while the keys are absent.
NewAgent(req) ==
  [config |-> [name |-> req.name, goal |-> req.goal, provider |-> req.provider,
               model |-> req.model, api_key |-> req.api_key,
               max_iterations |-> req.max_iterations, temperature |-> req.temperature],
   tasks |-> <<>>,
   logs |-> <<>>,
   status |-> "idle",
   execution_start |-> <<>>,
   execution_time |-> <<>>]

\* A request that has not been sent yet.
NoResponse == [code |-> 0, tasks_completed |-> 0, tasks_failed |-> 0, execution_time |-> <<>>]

IdleCall ==
  [pc |-> "idle", agent |-> 0, i |-> 0, task |-> 0, mine |-> <<>>, resp |-> NoResponse]

\* DownloadRequest's include_* fields (main.py:122-126), for a request that
\* has none.
NoFlags == [include_logs |-> FALSE, include_tasks |-> FALSE, include_config |-> FALSE]

\* No rejected create, summary or export request was answered since the last
\* step of an execute.
NoReply ==
  [op |-> "none", agent |-> 0, format |-> "none", flags |-> NoFlags, code |-> 0,
   body |-> <<>>, again |-> FALSE, before |-> <<>>]

Init ==
  /\ agent_data = <<>>
  /\ calls = [c \in Calls |-> IdleCall]
  /\ now = 0
  /\ faults = 0
  /\ reply = NoReply

\* uuid4 hands out an identifier that is not in use; the model takes the
\* least one.
FreshId == Len(agent_data) + 1

\* An answer: the request it answers, the status code, the body, and, when
\* the answer before it answered the same request, that answer's body.
Answer(op, a, format, flags, code, body) ==
  [op |-> op, agent |-> a, format |-> format, flags |-> flags, code |-> code, body |-> body,
   again |-> (reply.op = op /\ reply.agent = a /\ reply.format = format /\ reply.flags = flags),
   before |-> IF reply.op = op /\ reply.agent = a /\ reply.format = format /\ reply.flags = flags
              THEN reply.body ELSE <<>>]

\* create_agent storing the record under an identifier that is in use.
CreateAgent_reuses_id(req) ==
  /\ FreshId \in AgentIds
  /\ req.max_iterations \in MinIterations..MaxIterations
  /\ req.provider \in DOMAIN AI_PROVIDERS
  /\ req.model \in AI_PROVIDERS[req.provider]
  /\ agent_data' = IF agent_data = <<>> THEN Append(agent_data, NewAgent(req))
                   ELSE [agent_data EXCEPT ![1] = NewAgent(req)]
  /\ UNCHANGED <<calls, now, faults, reply>>

\* create_agent, main.py:461-501, for a valid request (pydantic has checked
\* the body against AgentConfig, main.py:84-91).
CreateAgent(req) ==
  /\ FreshId \in AgentIds
  /\ req.max_iterations \in MinIterations..MaxIterations
  /\ req.provider \in DOMAIN AI_PROVIDERS
  /\ req.model \in AI_PROVIDERS[req.provider]
  /\ agent_data' = Append(agent_data, NewAgent(req))
  /\ UNCHANGED <<calls, now, faults, reply>>

\* Time passes.
Tick ==
  /\ now + TickSeconds <= MaxTime
  /\ now' = now + TickSeconds
  /\ UNCHANGED <<agent_data, calls, faults, reply>>

\* ------------------------------------------------------ the provider client
\* What the provider's HTTP endpoint does with one request: a 2xx answer with
\* a well-formed body, an httpx.HTTPError (non-2xx status via
\* raise_for_status, or a network error), or a body that is not JSON or has
\* no choices[0].message.content.
ProviderOutcomes == {"ok", "http_error", "malformed"}
FailingOutcomes == {"http_error", "malformed"}

\* 2xx answers whose choices[0].message.content is the empty string, a text of
\* exactly FindingChars characters, or a longer one.
ContentOutcomes == {"empty", "exact", "long"}

RECURSIVE Repeat(_, _)
Repeat(s, n) == IF n = 0 THEN "" ELSE s \o Repeat(s, n - 1)

\* The number of characters generate_execution_summary keeps of a result
\* (main.py:254) and export_to_csv keeps of one (main.py:323).
FindingChars == 200
CsvResultChars == 100

ExactContent == Repeat("0123456789", FindingChars \div 10)
LongContent == ExactContent \o "!"

\* str(e) of the exceptions injected as faults.
Boom == <<"boom">>

\* The result of a call: the value returned, or the exception raised.
Returned(text) == [raised |-> FALSE, value |-> text]
Raised(e) == [raised |-> TRUE, value |-> e]

\* self.provider.value in the two except handlers (main.py:192, 196).
\* self.provider is config['provider'] (main.py:572), the plain str that
\* create_agent stored (main.py:478), and a str has no attribute value.
ProviderValue == Raised(<<"'str' object has no attribute 'value'">>)

\* AIClient.chat_completion, main.py:164-197.  An exception raised inside an
\* except handler is not caught by the handler's siblings.
chat_completion(outcome) ==
  CASE outcome = "ok" -> Returned(<<"content">>)
    [] outcome = "empty" -> Returned(<<"">>)
    [] outcome = "exact" -> Returned(<<ExactContent>>)
    [] outcome = "long" -> Returned(<<LongContent>>)
    [] outcome = "http_error" ->
         IF ProviderValue.raised THEN ProviderValue
         ELSE Returned(<<"AI provider temporarily unavailable. Error: ", outcome>>)
    [] outcome = "malformed" ->
         IF ProviderValue.raised THEN ProviderValue
         ELSE Returned(<<"Unexpected error occurred: ", outcome>>)

\* execute_agent_task without its try/except: what chat_completion raises
\* reaches execute_agent.
execute_agent_task_unguarded(outcome) == chat_completion(outcome)

\* AIClient.execute_agent_task, main.py:199-217.
execute_agent_task(outcome) ==
  LET r == chat_completion(outcome)
  IN IF r.raised THEN Returned(<<"Task execution failed: ">> \o r.value) ELSE r

\* The inner try of execute_agent, main.py:618-624: the client call, or an
\* exception raised in the try (the defensive path of main.py:641).
ClientCall(outcome) ==
  IF outcome = "raise" THEN Raised(Boom) ELSE execute_agent_task(outcome)

\* ----------------------------------------------------------- execute_agent
\* Where an exception is injected outside the inner try: while the task
\* record is built (main.py:590-598), while the starting log is built
\* (main.py:605-611), after the status is set to completed (main.py:659-666),
\* while the final log is built (main.py:669-675).
NoFault == "none"
IterationFaults == {"create", "startlog"}
FinalFaults == {"end", "finallog"}

AppendTask(d, text) == [d EXCEPT !.tasks = Append(@, NewTask(text))]
AppendLog(d, log) == [d EXCEPT !.logs = Append(@, log)]

\* len([t for t in data['tasks'] if t['status'] == s]), main.py:672, 681, 682.
CountStatus(tasks, s) == Cardinality({k \in 1..Len(tasks) : tasks[k].status = s})

\* minutes = int(total_seconds // 60), seconds = int(total_seconds % 60),
\* f"{minutes}m {seconds}s": main.py:663-666.
ExecutionTime(start, end) == << (end - start) \div 60, (end - start) % 60 >>

\* The outer except without data['status'] = 'failed'.
RunFaultHandler_keeps_status(d, cl) ==
  [data |-> AppendLog(d, Log("error", "Agent execution failed: ", NoText, Boom, 0)),
   call |-> [cl EXCEPT !.pc = "done",
                       !.resp = [NoResponse EXCEPT !.code = 500]]]

\* The outer except, main.py:686-700.
RunFaultHandler(d, cl) ==
  [data |-> AppendLog([d EXCEPT !.status = "failed"],
                      Log("error", "Agent execution failed: ", NoText, Boom, 0)),
   call |-> [cl EXCEPT !.pc = "done",
                       !.resp = [NoResponse EXCEPT !.code = 500]]]

\* One pass of the loop that appends the task and not its starting log.
StartIteration_silent(d, cl, fp) ==
  LET text == RunTasks(d.config)[cl.i + 1]
      d1 == AppendTask(d, text)
      cl0 == [cl EXCEPT !.i = @ + 1]
      cl1 == [cl0 EXCEPT !.task = Len(d1.tasks), !.mine = Append(@, Len(d1.tasks))]
  IN CASE fp = "create" -> RunFaultHandler(d, cl0)
       [] fp = "startlog" -> RunFaultHandler(d1, cl1)
       [] OTHER -> [data |-> d1, call |-> [cl1 EXCEPT !.pc = "awaiting"]]

\* One pass of the loop up to the provider call, main.py:589-615.
StartIteration(d, cl, fp) ==
  LET text == RunTasks(d.config)[cl.i + 1]
      d1 == AppendTask(d, text)
      cl0 == [cl EXCEPT !.i = @ + 1]
      cl1 == [cl0 EXCEPT !.task = Len(d1.tasks), !.mine = Append(@, Len(d1.tasks))]
  IN CASE fp = "create" -> RunFaultHandler(d, cl0)
       [] fp = "startlog" -> RunFaultHandler(d1, cl1)
       [] OTHER ->
            [data |-> AppendLog(d1, Log("info", "Starting task: ", text, <<>>, 0)),
             call |-> [cl1 EXCEPT !.pc = "awaiting"]]

\* What follows the provider call, writing to the agent's newest task instead
\* of the task this call created.
Settle_newest(d, cl, r) ==
  LET n == Len(d.tasks)
      text == d.tasks[n].text
  IN IF ~r.raised
     THEN AppendLog([d EXCEPT !.tasks[n].status = "completed",
                              !.tasks[n].result = r.value],
                    Log("info", "Completed task: ", text, <<>>, 0))
     ELSE AppendLog([d EXCEPT !.tasks[n].status = "failed",
                              !.tasks[n].result = <<"Task failed: ">> \o r.value],
                    Log("error", "Task failed: ", text, r.value, 0))

\* What follows the provider call, leaving the task's status alone when the
\* call raised.
Settle_forgets_failed(d, cl, r) ==
  LET text == d.tasks[cl.task].text
  IN IF ~r.raised
     THEN AppendLog([d EXCEPT !.tasks[cl.task].status = "completed",
                              !.tasks[cl.task].result = r.value],
                    Log("info", "Completed task: ", text, <<>>, 0))
     ELSE AppendLog([d EXCEPT !.tasks[cl.task].result = <<"Task failed: ">> \o r.value],
                    Log("error", "Task failed: ", text, r.value, 0))

\* What follows the provider call, main.py:626-655.
Settle(d, cl, r) ==
  LET text == d.tasks[cl.task].text
  IN IF ~r.raised
     THEN AppendLog([d EXCEPT !.tasks[cl.task].status = "completed",
                              !.tasks[cl.task].result = r.value],
                    Log("info", "Completed task: ", text, <<>>, 0))
     ELSE AppendLog([d EXCEPT !.tasks[cl.task].status = "failed",
                              !.tasks[cl.task].result = <<"Task failed: ">> \o r.value],
                    Log("error", "Task failed: ", text, r.value, 0))

\* After the loop, main.py:657-684.
Finalize(d, cl, t, fp) ==
  LET d1 == [d EXCEPT !.status = "completed"]
      d2 == IF d1.execution_start # <<>>
            THEN [d1 EXCEPT !.execution_time = ExecutionTime(d1.execution_start[1], t)]
            ELSE d1
      d3 == AppendLog(d2, Log("info", "Agent execution completed successfully. Generated ",
                              NoText, <<>>, CountStatus(d2.tasks, "completed")))
  IN CASE fp = "end" -> RunFaultHandler(d1, cl)
       [] fp = "finallog" -> RunFaultHandler(d2, cl)
       [] OTHER ->
            [data |-> d3,
             call |-> [cl EXCEPT !.pc = "done",
                                 !.resp = [code |-> 200,
                                           tasks_completed |-> CountStatus(d3.tasks, "completed"),
                                           tasks_failed |-> CountStatus(d3.tasks, "failed"),
                                           execution_time |-> d3.execution_time]]]

\* The for statement, main.py:589: the next pass, or the code after the loop.
Continue(d, cl, t, fp) ==
  IF cl.i < Len(RunTasks(d.config)) THEN StartIteration(d, cl, fp) ELSE Finalize(d, cl, t, fp)

\* The fault points the next segment of call cl passes.
FaultPoints(d, cl) ==
  IF cl.i < Len(RunTasks(d.config)) THEN IterationFaults ELSE FinalFaults

Cost(x, free) == IF x = free THEN 0 ELSE 1

\* execute_agent for an unknown identifier, main.py:565-566.
ExecNotFound(c, a) ==
  /\ calls[c].pc = "idle"
  /\ \A c2 \in Calls : c2 < c => calls[c2].pc # "idle"
  /\ a \notin DOMAIN agent_data
  /\ calls' = [calls EXCEPT ![c] = [@ EXCEPT !.pc = "done", !.agent = a,
                                             !.resp = [NoResponse EXCEPT !.code = 404]]]
  /\ reply' = NoReply
  /\ UNCHANGED <<agent_data, now, faults>>

\* execute_agent with one task list and one log list shared by all agents.
ExecEnter_shared_lists(c, a, fp) ==
  /\ calls[c].pc = "idle"
  /\ \A c2 \in Calls : c2 < c => calls[c2].pc # "idle"
  /\ a \in DOMAIN agent_data
  /\ faults + Cost(fp, NoFault) <= MaxFaults
  /\ LET d0 == [agent_data[a] EXCEPT !.status = "running", !.execution_start = <<now>>]
         cl == [calls[c] EXCEPT !.agent = a]
     IN /\ fp \in FaultPoints(d0, cl) \cup {NoFault}
        /\ LET r == Continue(d0, cl, now, fp)
           IN /\ agent_data' = [b \in DOMAIN agent_data |->
                                  IF b = a THEN r.data
                                  ELSE [agent_data[b] EXCEPT !.tasks = r.data.tasks,
                                                             !.logs = r.data.logs]]
              /\ calls' = [calls EXCEPT ![c] = r.call]
  /\ faults' = faults + Cost(fp, NoFault)
  /\ reply' = NoReply
  /\ UNCHANGED now

\* execute_agent from its entry to the first provider call, main.py:563-615.
ExecEnter(c, a, fp) ==
  /\ calls[c].pc = "idle"
  /\ \A c2 \in Calls : c2 < c => calls[c2].pc # "idle"
  /\ a \in DOMAIN agent_data
  /\ faults + Cost(fp, NoFault) <= MaxFaults
  /\ LET d0 == [agent_data[a] EXCEPT !.status = "running", !.execution_start = <<now>>]
         cl == [calls[c] EXCEPT !.agent = a]
     IN /\ fp \in FaultPoints(d0, cl) \cup {NoFault}
        /\ LET r == Continue(d0, cl, now, fp)
           IN /\ agent_data' = [agent_data EXCEPT ![a] = r.data]
              /\ calls' = [calls EXCEPT ![c] = r.call]
  /\ faults' = faults + Cost(fp, NoFault)
  /\ reply' = NoReply
  /\ UNCHANGED now

\* execute_agent from the return of a provider call to the next one, or to
\* the end of the handler, main.py:619-700.
TaskDone(c, out, fp) ==
  /\ calls[c].pc = "awaiting"
  /\ faults + Cost(out, "ok") + Cost(fp, NoFault) <= MaxFaults
  /\ LET a == calls[c].agent
         d1 == Settle(agent_data[a], calls[c], ClientCall(out))
         cl == calls[c]
     IN /\ fp \in FaultPoints(d1, cl) \cup {NoFault}
        /\ LET r == Continue(d1, cl, now, fp)
           IN /\ agent_data' = [agent_data EXCEPT ![a] = r.data]
              /\ calls' = [calls EXCEPT ![c] = r.call]
  /\ faults' = faults + Cost(out, "ok") + Cost(fp, NoFault)
  /\ reply' = NoReply
  /\ UNCHANGED now

\* POST /agents/{agent_id}/execute is received.
ExecStart(c, a) == ExecEnter(c, a, NoFault)

\* The same, with a run-level fault before the first provider call.
ExecStartRunFault(c, a) == \E fp \in IterationFaults : ExecEnter(c, a, fp)

\* The provider call of a suspended execute returns.
ProviderReturn(c) == \E out \in ProviderOutcomes : TaskDone(c, out, NoFault)

\* An exception escapes the client call (task-level fault).
ClientRaise(c) == TaskDone(c, "raise", NoFault)

\* The provider call ends and a run-level fault follows in the same segment.
RunFault(c) ==
  \E out \in ProviderOutcomes \cup {"raise"}, fp \in IterationFaults \cup FinalFaults :
    TaskDone(c, out, fp)

Next ==
  \/ \E req \in Requests : CreateAgent(req)
  \/ Tick
  \/ \E c \in Calls, a \in AgentIds : ExecNotFound(c, a)
  \/ \E c \in Calls, a \in AgentIds : ExecStart(c, a)
  \/ \E c \in Calls, a \in AgentIds : ExecStartRunFault(c, a)
  \/ \E c \in Calls : ProviderReturn(c)
  \/ \E c \in Calls : ClientRaise(c)
  \/ \E c \in Calls : RunFault(c)

Spec == Init /\ [][Next]_vars

\* ------------------------------------------------- per-agent serialization
\* No execute request of agent a is suspended at its provider call.
NotBusy(a) == \A c \in Calls : ~(calls[c].pc = "awaiting" /\ calls[c].agent = a)

\* The behaviours in which a client starts an execute of an agent only when
\* no other execute of that agent is in flight, and in which no run-level
\* fault occurs.
SerialNext ==
  \/ \E req \in Requests : CreateAgent(req)
  \/ Tick
  \/ \E c \in Calls, a \in AgentIds : ExecNotFound(c, a)
  \/ \E c \in Calls, a \in AgentIds : NotBusy(a) /\ ExecStart(c, a)
  \/ \E c \in Calls : ProviderReturn(c)
  \/ \E c \in Calls : ClientRaise(c)

SpecSerial == Init /\ [][SerialNext]_vars

\* The behaviours in which executes of one agent may overlap and no
\* run-level fault occurs.
OverlapNext ==
  \/ \E req \in Requests : CreateAgent(req)
  \/ \E c \in Calls, a \in AgentIds : ExecStart(c, a)
  \/ \E c \in Calls : ProviderReturn(c)
  \/ \E c \in Calls : ClientRaise(c)

SpecOverlap == Init /\ [][OverlapNext]_vars

\* ------------------------------------------------------- rejected creates
\* class AIProvider(str, Enum), main.py:69-71.
AIProvider == {"cerebras", "sambanova"}

\* The bodies of POST /agents that name a provider outside AIProvider, or a
\* model outside the provider's list.
BadRequests ==
  { [name |-> "Agent One", goal |-> "X", provider |-> p, model |-> m, api_key |-> "key",
     max_iterations |-> MinIterations, temperature |-> 7] :
       p \in {"cerebras", "openai"}, m \in {"deepseek-v3", "gpt-4"} }

\* FastAPI checks the body against AgentExecutionRequest before it calls the
\* handler (main.py:462, 84-91): provider must be a member of AIProvider and
\* max_iterations must lie in ge..le; a body that fails is answered 422.
BodyIsValid(req) ==
  /\ req.provider \in AIProvider
  /\ req.max_iterations \in MinIterations..MaxIterations

\* The status code and detail create_agent answers with when it stores
\* nothing; code 0 when it stores the agent.  main.py:466-471.
Rejection(req) ==
  CASE ~BodyIsValid(req) -> [code |-> 422, detail |-> "body.config.provider"]
    [] req.provider \notin DOMAIN AI_PROVIDERS -> [code |-> 400, detail |-> "Invalid AI provider"]
    [] req.model \notin AI_PROVIDERS[req.provider] ->
         [code |-> 400, detail |-> "Invalid model for selected provider"]
    [] OTHER -> [code |-> 0, detail |-> ""]

\* create_agent for a request it rejects, main.py:461-471.
CreateRejected(req) ==
  /\ Rejection(req).code # 0
  /\ reply' = Answer("create", 0, "none", NoFlags, Rejection(req).code,
                     <<req.provider, req.model, Rejection(req).detail>>)
  /\ UNCHANGED <<agent_data, calls, now, faults>>

\* ---------------------------------------------------------------- summary
\* A str: the pieces of a text, joined.
RECURSIVE Str(_)
Str(text) == IF text = <<>> THEN "" ELSE text[1] \o Str(Tail(text))

\* str(n) for n >= 0.
RECURSIVE Dec(_)
Dec(n) ==
  LET digit == <<"0", "1", "2", "3", "4", "5", "6", "7", "8", "9">>
  IN IF n < 10 THEN digit[n + 1] ELSE Dec(n \div 10) \o digit[(n % 10) + 1]

\* s[:n] + "..." if len(s) > n else s, main.py:254, 323.
Truncate_at_limit(s, n) == IF Len(s) >= n THEN SubSeq(s, 1, n) \o "..." ELSE s

Truncate(s, n) == IF Len(s) > n THEN SubSeq(s, 1, n) \o "..." ELSE s

\* num/den rounded to the nearest integer, ties to the even one.
RoundHalfEven(num, den) ==
  LET q == num \div den
      r == num % den
  IN IF 2 * r > den \/ (2 * r = den /\ q % 2 = 1) THEN q + 1 ELSE q

\* success_rate, main.py:233, as the fraction num/den.
SuccessRate(completed, total) ==
  IF total > 0 THEN [num |-> completed * 100, den |-> total] ELSE [num |-> 0, den |-> 1]

\* f"{success_rate:.1f}%", main.py:241.
FormatRate(rate) ==
  LET tenths == RoundHalfEven(rate.num * 10, rate.den)
  IN Dec(tenths \div 10) \o "." \o Dec(tenths % 10) \o "%"

\* The execution time measured when the summary is made, not the stored one.
StoredExecutionTime_live(data) ==
  IF data.execution_start = <<>> THEN "N/A"
  ELSE Dec((now - data.execution_start[1]) \div 60) \o "m "
       \o Dec((now - data.execution_start[1]) % 60) \o "s"

\* data.get('execution_time', 'N/A'), main.py:242, with the stored value
\* f"{minutes}m {seconds}s" of main.py:666.
StoredExecutionTime(data) ==
  IF data.execution_time = <<>> THEN "N/A"
  ELSE Dec(data.execution_time[1]) \o "m " \o Dec(data.execution_time[2]) \o "s"

\* task['status'] == 'completed' and task['result'], main.py:251.
IsFinding(task) == task.status = "completed" /\ Str(task.result) # ""

\* The entry of main.py:252-255.  A dict is the sequence of its items.
Finding(task) ==
  << <<"task", Str(task.text)>>, <<"result", Truncate(Str(task.result), FindingChars)>> >>

\* key_findings, main.py:250-255.
KeyFindings(tasks) ==
  LET kept == SelectSeq(tasks, IsFinding)
  IN [k \in 1..Len(kept) |-> Finding(kept[k])]

\* The rules of main.py:258-263 with the second nested in the first's else.
Recommendations_chained(failed, rate) ==
  IF failed > 0 THEN <<"Review failed tasks and adjust agent parameters">>
  ELSE (IF rate.num < 50 * rate.den
        THEN <<"Consider reducing task complexity or adjusting AI model parameters">>
        ELSE <<>>)
       \o (IF rate.num >= 80 * rate.den
           THEN <<"Agent performed well. Consider increasing task complexity for next run">>
           ELSE <<>>)

\* recommendations, main.py:258-263.
Recommendations(failed, rate) ==
  (IF failed > 0 THEN <<"Review failed tasks and adjust agent parameters">> ELSE <<>>)
  \o (IF rate.num < 50 * rate.den
      THEN <<"Consider reducing task complexity or adjusting AI model parameters">>
      ELSE <<>>)
  \o (IF rate.num >= 80 * rate.den
      THEN <<"Agent performed well. Consider increasing task complexity for next run">>
      ELSE <<>>)

\* The statistics of main.py:230-233 with failed tasks counted as completed.
Statistics_counts_settled(tasks) ==
  LET completed == CountStatus(tasks, "completed") + CountStatus(tasks, "failed")
  IN [total |-> Len(tasks), completed |-> completed,
      failed |-> CountStatus(tasks, "failed"),
      rate |-> SuccessRate(completed, Len(tasks))]

\* The statistics of main.py:230-233.
Statistics(tasks) ==
  [total |-> Len(tasks),
   completed |-> CountStatus(tasks, "completed"),
   failed |-> CountStatus(tasks, "failed"),
   rate |-> SuccessRate(CountStatus(tasks, "completed"), Len(tasks))]

\* generate_execution_summary without the test of main.py:222-223, reading
\* the record with the defaults of its data.get calls.
generate_execution_summary_unguarded(agent_id) ==
  LET known == agent_id \in DOMAIN agent_data
      tasks == IF known THEN agent_data[agent_id].tasks ELSE <<>>
      st == Statistics(tasks)
  IN << <<"execution_summary",
          << <<"total_tasks", st.total>>,
             <<"completed_tasks", st.completed>>,
             <<"failed_tasks", st.failed>>,
             <<"success_rate", FormatRate(st.rate)>>,
             <<"execution_time",
               IF known THEN StoredExecutionTime(agent_data[agent_id]) ELSE "N/A">>,
             <<"final_status", IF known THEN agent_data[agent_id].status ELSE "unknown">> >> >>,
        <<"key_findings", KeyFindings(tasks)>>,
        <<"recommendations", Recommendations(st.failed, st.rate)>> >>

\* generate_execution_summary, main.py:220-265; {} is the empty sequence.
generate_execution_summary(agent_id) ==
  IF agent_id \notin DOMAIN agent_data THEN <<>>
  ELSE LET data == agent_data[agent_id]
           st == Statistics(data.tasks)
       IN << <<"execution_summary",
               << <<"total_tasks", st.total>>,
                  <<"completed_tasks", st.completed>>,
                  <<"failed_tasks", st.failed>>,
                  <<"success_rate", FormatRate(st.rate)>>,
                  <<"execution_time", StoredExecutionTime(data)>>,
                  <<"final_status", data.status>> >> >>,
             <<"key_findings", KeyFindings(data.tasks)>>,
             <<"recommendations", Recommendations(st.failed, st.rate)>> >>

\* ---------------------------------------------------------------- strings
Lowercase == "abcdefghijklmnopqrstuvwxyz"
Uppercase == "ABCDEFGHIJKLMNOPQRSTUVWXYZ"

Char(s, i) == SubSeq(s, i, i)

\* The position of a character in an alphabet, 0 when it is not in it.
IndexIn(ch, alphabet) ==
  IF \E i \in 1..Len(alphabet) : Char(alphabet, i) = ch
  THEN CHOOSE i \in 1..Len(alphabet) : Char(alphabet, i) = ch
  ELSE 0

IsLetter(ch) == IndexIn(ch, Lowercase) > 0 \/ IndexIn(ch, Uppercase) > 0
LowerChar(ch) == IF IndexIn(ch, Uppercase) > 0 THEN Char(Lowercase, IndexIn(ch, Uppercase)) ELSE ch
UpperChar(ch) == IF IndexIn(ch, Lowercase) > 0 THEN Char(Uppercase, IndexIn(ch, Lowercase)) ELSE ch

\* str.lower() and str.upper().
RECURSIVE Lower(_)
Lower(s) == IF s = "" THEN "" ELSE LowerChar(Char(s, 1)) \o Lower(SubSeq(s, 2, Len(s)))

RECURSIVE Upper(_)
Upper(s) == IF s = "" THEN "" ELSE UpperChar(Char(s, 1)) \o Upper(SubSeq(s, 2, Len(s)))

\* str.replace(old, new) for a one-character old.
RECURSIVE Replace(_, _, _)
Replace(s, old, new) ==
  IF s = "" THEN ""
  ELSE (IF Char(s, 1) = old THEN new ELSE Char(s, 1)) \o Replace(SubSeq(s, 2, Len(s)), old, new)

\* str.title(): a letter that follows a letter is lowered, any other letter
\* is raised.
RECURSIVE TitleFrom(_, _)
TitleFrom(s, inWord) ==
  IF s = "" THEN ""
  ELSE (IF inWord THEN LowerChar(Char(s, 1)) ELSE UpperChar(Char(s, 1)))
       \o TitleFrom(SubSeq(s, 2, Len(s)), IsLetter(Char(s, 1)))

Title(s) == TitleFrom(s, FALSE)

\* key.replace('_', ' ').title() for the keys of the execution summary,
\* main.py:347, 417.
SummaryKeys ==
  {"total_tasks", "completed_tasks", "failed_tasks", "success_rate", "execution_time",
   "final_status"}
MetricName == [key \in SummaryKeys |-> Title(Replace(key, "_", " "))]

\* log.get('log_type', 'INFO').upper(), main.py:408.
LogTypeUpper == [t \in {"info", "error", "warning"} |-> Upper(t)]

\* A call of generate_execution_summary.
Summarize(a) ==
  /\ reply' = Answer("summarize", a, "none", NoFlags, 0, generate_execution_summary(a))
  /\ UNCHANGED <<agent_data, calls, now, faults>>

\* get_agent_summary, main.py:554-560.
GetSummary(a) ==
  /\ reply' = IF a \notin DOMAIN agent_data
              THEN Answer("summary", a, "none", NoFlags, 404, <<"Agent not found">>)
              ELSE Answer("summary", a, "none", NoFlags, 200, generate_execution_summary(a))
  /\ UNCHANGED <<agent_data, calls, now, faults>>

\* ---------------------------------------------------------------- exports
\* The stored dicts as the sequences of their items, in the order the keys
\* were set (main.py:475-483, 592-598 and 628, 605-611).  The model stores no
\* id and no created_at or updated_at of a task or a log, so the exports
\* below have no such column or line.
ConfigItems(config) ==
  << <<"name", config.name>>, <<"goal", config.goal>>, <<"provider", config.provider>>,
     <<"model", config.model>>, <<"api_key", config.api_key>>,
     <<"max_iterations", config.max_iterations>>, <<"temperature", config.temperature>> >>

TaskItems(task) ==
  << <<"text", Str(task.text)>>, <<"status", task.status>> >>
  \o (IF task.result = <<>> THEN <<>> ELSE << <<"result", Str(task.result)>> >>)

\* The message of a log: the f-strings of main.py:608, 635, 651, 672, 691.
Message(log) ==
  CASE log.msg = "Task failed: " -> log.msg \o Str(log.text) \o " - " \o Str(log.detail)
    [] log.msg = "Agent execution failed: " -> log.msg \o Str(log.detail)
    [] log.msg = "Agent execution completed successfully. Generated " ->
         log.msg \o Dec(log.count) \o " tasks."
    [] OTHER -> log.msg \o Str(log.text)

LogItems(log) == << <<"message", Message(log)>>, <<"log_type", log.log_type>> >>

RECURSIVE Concat(_)
Concat(ss) == IF ss = <<>> THEN <<>> ELSE ss[1] \o Concat(Tail(ss))

\* The value of a key of a dict given as its items.
Get(items, key) == items[CHOOSE k \in 1..Len(items) : items[k][1] = key][2]

\* The include_* flags of a request.
DownloadFlags ==
  [include_logs : BOOLEAN, include_tasks : BOOLEAN, include_config : BOOLEAN]

ExportFormat == {"json", "csv", "txt"}

\* export_to_json answering an unknown identifier with the line the other
\* two renderers answer with.
export_to_json_plain(agent_id, flags, t) ==
  IF agent_id \notin DOMAIN agent_data THEN << "Error: Agent not found" >>
  ELSE LET data == agent_data[agent_id]
       IN (IF flags.include_config
           THEN << <<"agent_config", ConfigItems(data.config)>> >> ELSE <<>>)
          \o (IF flags.include_tasks
              THEN << <<"tasks", [idx \in 1..Len(data.tasks) |-> TaskItems(data.tasks[idx])]>> >> ELSE <<>>)
          \o (IF flags.include_logs
              THEN << <<"logs", [idx \in 1..Len(data.logs) |-> LogItems(data.logs[idx])]>> >> ELSE <<>>)
          \o << <<"execution_summary", generate_execution_summary(agent_id)>>,
                <<"export_timestamp", Dec(t)>> >>

\* export_to_json, main.py:267-287, at time t: the object json.dumps writes,
\* as its items.
export_to_json(agent_id, flags, t) ==
  IF agent_id \notin DOMAIN agent_data THEN << <<"error", "Agent not found">> >>
  ELSE LET data == agent_data[agent_id]
       IN (IF flags.include_config
           THEN << <<"agent_config", ConfigItems(data.config)>> >> ELSE <<>>)
          \o (IF flags.include_tasks
              THEN << <<"tasks", [idx \in 1..Len(data.tasks) |-> TaskItems(data.tasks[idx])]>> >> ELSE <<>>)
          \o (IF flags.include_logs
              THEN << <<"logs", [idx \in 1..Len(data.logs) |-> LogItems(data.logs[idx])]>> >> ELSE <<>>)
          \o << <<"execution_summary", generate_execution_summary(agent_id)>>,
                <<"export_timestamp", Dec(t)>> >>

\* The row of a task, main.py:319-326.
CsvTaskRow(task) ==
  << Str(task.text), task.status, Truncate(Str(task.result), CsvResultChars) >>

CsvLogRow(log) == << log.log_type, Message(log) >>

CsvMetricRow(item) == << MetricName[item[1]], item[2] >>

CsvFindingRow(finding) == << Get(finding, "task"), Get(finding, "result") >>

CsvRecommendationRow(rec) == << rec >>

\* export_to_csv, main.py:289-361, at time t: the rows written (for an
\* unknown identifier, the one line returned).
export_to_csv(agent_id, flags, t) ==
  IF agent_id \notin DOMAIN agent_data THEN << "Error: Agent not found" >>
  ELSE LET data == agent_data[agent_id]
           config == data.config
           summary == generate_execution_summary(agent_id)
           metrics == Get(summary, "execution_summary")
           findings == Get(summary, "key_findings")
           recs == Get(summary, "recommendations")
       IN << <<"AgentGPT Export", "Generated on: " \o Dec(t)>>, <<>> >>
          \o (IF flags.include_config
              THEN << <<"Agent Configuration">>,
                      <<"Name", config.name>>, <<"Goal", config.goal>>,
                      <<"Provider", config.provider>>, <<"Model", config.model>>,
                      <<"Max Iterations", config.max_iterations>>,
                      <<"Temperature", config.temperature>>, <<>> >>
              ELSE <<>>)
          \o (IF flags.include_tasks
              THEN << <<"Tasks">>, <<"Text", "Status", "Result">> >>
                   \o [idx \in 1..Len(data.tasks) |-> CsvTaskRow(data.tasks[idx])] \o << <<>> >>
              ELSE <<>>)
          \o (IF flags.include_logs
              THEN << <<"Execution Logs">>, <<"Type", "Message">> >>
                   \o [idx \in 1..Len(data.logs) |-> CsvLogRow(data.logs[idx])] \o << <<>> >>
              ELSE <<>>)
          \o (IF summary # <<>>
              THEN << <<"Execution Summary">>, <<"Metric", "Value">> >>
                   \o [idx \in 1..Len(metrics) |-> CsvMetricRow(metrics[idx])] \o << <<>> >>
                   \o (IF findings # <<>>
                       THEN << <<"Key Findings">> >>
                            \o [idx \in 1..Len(findings) |-> CsvFindingRow(findings[idx])] \o << <<>> >>
                       ELSE <<>>)
                   \o (IF recs # <<>>
                       THEN << <<"Recommendations">> >>
                            \o [idx \in 1..Len(recs) |-> CsvRecommendationRow(recs[idx])]
                       ELSE <<>>)
              ELSE <<>>)

\* "-" * 40 and "=" * 80, main.py:372-381.
Rule == Repeat("-", 40)
Border == Repeat("=", 80)

\* The lines of task number i, main.py:396-401.
TxtTaskLines(i, task) ==
  << "Task " \o Dec(i) \o ": " \o Str(task.text), "Status: " \o task.status >>
  \o (IF Str(task.result) # "" THEN << "Result: " \o Str(task.result) >> ELSE <<>>)
  \o << "" >>

TxtLogLine(log) == LogTypeUpper[log.log_type] \o ": " \o Message(log)

\* f"{key.replace('_', ' ').title()}: {value}", main.py:417.
TxtMetricLine(item) ==
  MetricName[item[1]] \o ": "
  \o (IF item[1] \in {"total_tasks", "completed_tasks", "failed_tasks"}
      THEN Dec(item[2]) ELSE item[2])

TxtFindingLines(finding) ==
  << "* " \o Get(finding, "task"), "  " \o Get(finding, "result"), "" >>

TxtRecommendationLine(rec) == "* " \o rec

\* Temperature is stored in tenths: str(0.7) is "0.7", str(1.0) is "1.0".
StrTemperature(tenths) == Dec(tenths \div 10) \o "." \o Dec(tenths % 10)

\* export_to_txt, main.py:363-436, at time t: the lines joined by "\n".
export_to_txt(agent_id, flags, t) ==
  IF agent_id \notin DOMAIN agent_data THEN << "Error: Agent not found" >>
  ELSE LET data == agent_data[agent_id]
           config == data.config
           summary == generate_execution_summary(agent_id)
           metrics == Get(summary, "execution_summary")
           findings == Get(summary, "key_findings")
           recs == Get(summary, "recommendations")
       IN << Border, "AGENTGPT EXECUTION REPORT", Border,
             "Generated on: " \o Dec(t), "" >>
          \o (IF flags.include_config
              THEN << "AGENT CONFIGURATION", Rule,
                      "Name: " \o config.name, "Goal: " \o config.goal,
                      "Provider: " \o config.provider, "Model: " \o config.model,
                      "Max Iterations: " \o Dec(config.max_iterations),
                      "Temperature: " \o StrTemperature(config.temperature), "" >>
              ELSE <<>>)
          \o (IF flags.include_tasks
              THEN << "TASKS EXECUTION", Rule >>
                   \o Concat([i \in 1..Len(data.tasks) |-> TxtTaskLines(i, data.tasks[i])])
              ELSE <<>>)
          \o (IF flags.include_logs
              THEN << "EXECUTION LOGS", Rule >> \o [idx \in 1..Len(data.logs) |-> TxtLogLine(data.logs[idx])] \o << "" >>
              ELSE <<>>)
          \o (IF summary # <<>>
              THEN << "EXECUTION SUMMARY", Rule >>
                   \o [idx \in 1..Len(metrics) |-> TxtMetricLine(metrics[idx])] \o << "" >>
                   \o (IF findings # <<>>
                       THEN << "KEY FINDINGS", Rule >>
                            \o Concat([idx \in 1..Len(findings) |-> TxtFindingLines(findings[idx])])
                       ELSE <<>>)
                   \o (IF recs # <<>>
                       THEN << "RECOMMENDATIONS", Rule >>
                            \o [idx \in 1..Len(recs) |-> TxtRecommendationLine(recs[idx])]
                            \o << "" >>
                       ELSE <<>>)
              ELSE <<>>)
          \o << Border >>

\* The renderer of a format.
Render(format, agent_id, flags, t) ==
  CASE format = "json" -> export_to_json(agent_id, flags, t)
    [] format = "csv" -> export_to_csv(agent_id, flags, t)
    [] format = "txt" -> export_to_txt(agent_id, flags, t)

\* A renderer call that cuts the stored results to the length it prints.
Export_cuts_in_place(a, format, flags) ==
  /\ reply' = Answer("export", a, format, flags, 0, Render(format, a, flags, now))
  /\ agent_data' =
       [b \in DOMAIN agent_data |->
          IF b # a THEN agent_data[b]
          ELSE [agent_data[b] EXCEPT
                  !.tasks = [k \in 1..Len(@) |->
                               IF Len(Str(@[k].result)) <= CsvResultChars THEN @[k]
                               ELSE [@[k] EXCEPT
                                       !.result = <<Truncate(Str(@), CsvResultChars)>>]]]]
  /\ UNCHANGED <<calls, now, faults>>

\* A call of export_to_json, export_to_csv or export_to_txt.
Export(a, format, flags) ==
  /\ reply' = Answer("export", a, format, flags, 0, Render(format, a, flags, now))
  /\ UNCHANGED <<agent_data, calls, now, faults>>

MediaType == [json |-> "application/json", csv |-> "text/csv", txt |-> "text/plain"]

\* download_agent_data, main.py:703-732 (and download_agent_data_simple,
\* main.py:734-763, which is the same with every flag set).
Download(a, format, flags) ==
  /\ reply' =
       IF a \notin DOMAIN agent_data
       THEN Answer("download", a, format, flags, 404, <<"Agent not found">>)
       ELSE LET agent_name == Lower(Replace(agent_data[a].config.name, " ", "_"))
            IN Answer("download", a, format, flags, 200,
                      << Render(format, a, flags, now), MediaType[format],
                         agent_name \o "_export_" \o Dec(now) \o "." \o format >>)
  /\ UNCHANGED <<agent_data, calls, now, faults>>

\* The flags of the requests the model sends to the download endpoint.
SimpleFlags == [include_logs |-> TRUE, include_tasks |-> TRUE, include_config |-> TRUE]

\* ------------------------------------------------- reads while agents run
\* Between two steps of an execute the model asks one create, summary,
\* export or download request, and may repeat an export once: the answers
\* depend on the store and the clock only, and no request of these changes
\* either.
MayAsk == reply.op = "none"

MayRepeat(op, a, format, flags) ==
  /\ ~reply.again
  /\ reply.op = op /\ reply.agent = a /\ reply.format = format /\ reply.flags = flags

\* The execute requests served while the model reads.
ReadCalls == 1..MaxReadCalls

\* Creates, the steps of the execute requests ReadCalls with provider answers
\* of every length and task-level faults, rejected creates and summaries.
SummaryNext ==
  \/ \E req \in Requests : CreateAgent(req)
  \/ Tick
  \/ \E c \in ReadCalls, a \in AgentIds : ExecStart(c, a)
  \/ \E c \in ReadCalls : ProviderReturn(c)
  \/ \E c \in ReadCalls, out \in ContentOutcomes : TaskDone(c, out, NoFault)
  \/ \E c \in ReadCalls : ClientRaise(c)
  \/ \E req \in BadRequests : MayAsk /\ CreateRejected(req)
  \/ \E a \in AgentIds : MayAsk /\ Summarize(a)
  \/ \E a \in AgentIds : MayAsk /\ GetSummary(a)

SpecSummary == Init /\ [][SummaryNext]_vars

\* The same with exports and downloads.
ReadsNext ==
  \/ SummaryNext
  \/ \E a \in AgentIds, format \in ExportFormat, flags \in DownloadFlags :
       (MayAsk \/ MayRepeat("export", a, format, flags)) /\ Export(a, format, flags)
  \/ \E a \in AgentIds, format \in ExportFormat : MayAsk /\ Download(a, format, SimpleFlags)

SpecReads == Init /\ [][ReadsNext]_vars

\* ------------------------------------------------------ the read endpoints
\* The dict get_agent returns, main.py:525-534, and list_agents builds for
\* each agent, main.py:508-517 (created_at and updated_at are not modelled).
AgentItems(agent_id, data) ==
  << <<"id", agent_id>>, <<"name", data.config.name>>, <<"goal", data.config.goal>>,
     <<"provider", data.config.provider>>, <<"model", data.config.model>>,
     <<"status", data.status>> >>

\* list_agents, main.py:503-518.
ListAgents ==
  /\ reply' = Answer("agents", 0, "none", NoFlags, 200,
                     [k \in 1..Len(agent_data) |-> AgentItems(k, agent_data[k])])
  /\ UNCHANGED <<agent_data, calls, now, faults>>

\* get_agent, main.py:520-535.
GetAgent(a) ==
  /\ reply' = IF a \notin DOMAIN agent_data
              THEN Answer("agent", a, "none", NoFlags, 404, <<"Agent not found">>)
              ELSE Answer("agent", a, "none", NoFlags, 200, AgentItems(a, agent_data[a]))
  /\ UNCHANGED <<agent_data, calls, now, faults>>

\* get_agent_tasks, main.py:537-543.
GetAgentTasks(a) ==
  /\ reply' = IF a \notin DOMAIN agent_data
              THEN Answer("tasks", a, "none", NoFlags, 404, <<"Agent not found">>)
              ELSE Answer("tasks", a, "none", NoFlags, 200,
                          [idx \in 1..Len(agent_data[a].tasks) |-> TaskItems(agent_data[a].tasks[idx])])
  /\ UNCHANGED <<agent_data, calls, now, faults>>

\* get_agent_logs, main.py:545-551.
GetAgentLogs(a) ==
  /\ reply' = IF a \notin DOMAIN agent_data
              THEN Answer("logs", a, "none", NoFlags, 404, <<"Agent not found">>)
              ELSE Answer("logs", a, "none", NoFlags, 200,
                          [idx \in 1..Len(agent_data[a].logs) |-> LogItems(agent_data[a].logs[idx])])
  /\ UNCHANGED <<agent_data, calls, now, faults>>

\* The bodies of POST /agents that differ in the api_key only.
KeyRequests ==
  { [name |-> "Agent One", goal |-> "X", provider |-> "cerebras",
     model |-> "llama3.1-8b", api_key |-> k, max_iterations |-> MinIterations,
     temperature |-> 7] : k \in {"key", "other key"} }

\* The behaviours in which agents are created with one key or the other,
\* executed, and read: one read between two steps of an execute.
KeysNext ==
  \/ \E req \in KeyRequests : CreateAgent(req)
  \/ \E c \in Calls, a \in AgentIds : ExecStart(c, a)
  \/ \E c \in Calls : ProviderReturn(c)
  \/ \E c \in Calls : ClientRaise(c)
  \/ MayAsk /\ ListAgents
  \/ \E a \in AgentIds : MayAsk /\ GetAgent(a)
  \/ \E a \in AgentIds : MayAsk /\ GetAgentTasks(a)
  \/ \E a \in AgentIds : MayAsk /\ GetAgentLogs(a)
  \/ \E a \in AgentIds : MayAsk /\ GetSummary(a)
  \/ \E a \in AgentIds, format \in ExportFormat, flags \in DownloadFlags :
       MayAsk /\ Export(a, format, flags)
  \/ \E a \in AgentIds, format \in ExportFormat : MayAsk /\ Download(a, format, SimpleFlags)

SpecKeys == Init /\ [][KeysNext]_vars

\* ------------------------------------------------------------ termination
\* The provider call of execute request c ends: httpx.AsyncClient(timeout=
\* 120.0) (main.py:179) makes the post return or raise within the timeout,
\* and the event loop then resumes the coroutine.
ProviderCallEnds(c) ==
  \E out \in ProviderOutcomes \cup {"raise"}, fp \in IterationFaults \cup FinalFaults \cup {NoFault} :
    TaskDone(c, out, fp)

\* The behaviours of the creates and the executes (concurrent ones and
\* faults included) in which time is not observed.
LiveNext ==
  \/ \E req \in Requests : CreateAgent(req)
  \/ \E c \in Calls, a \in AgentIds : ExecStart(c, a)
  \/ \E c \in Calls, a \in AgentIds : ExecStartRunFault(c, a)
  \/ \E c \in Calls : ProviderReturn(c)
  \/ \E c \in Calls : ClientRaise(c)
  \/ \E c \in Calls : RunFault(c)

\* Every provider call that was made ends.
SpecLive == Init /\ [][LiveNext]_vars /\ \A c \in Calls : WF_vars(ProviderCallEnds(c))

\* ================================================================ properties
Agents == DOMAIN agent_data

\* The texts of an agent's stored tasks, in stored order.
StoredTexts(a) == [k \in 1..Len(agent_data[a].tasks) |-> agent_data[a].tasks[k].text]

\* This step is the normal return (the 200 response) of execute request c.
ReturnsNormally(c) ==
  /\ calls[c].pc # "done"
  /\ calls'[c].pc = "done"
  /\ calls'[c].resp.code = 200

\* Execute request c has returned normally.
ReturnedNormally(c) == calls[c].pc = "done" /\ calls[c].resp.code = 200

\* The number of tasks an execute of an agent with this configuration is to
\* produce: min(max_iterations, 5).
Expected(config) == Min(config.max_iterations, 5)

\* C1: whenever an execute call returns normally, the first one on an agent
\* or a later one, the agent stores exactly min(max_iterations, 5) tasks.
C1_TaskCountAfterExecute ==
  [][\A c \in Calls :
       ReturnsNormally(c) =>
         LET a == calls'[c].agent
         IN Len(agent_data'[a].tasks) = Expected(agent_data'[a].config)]_vars

\* C2: once an execute of an agent has returned normally, and while no
\* execute of that agent is in flight, the texts of the agent's stored tasks
\* are the five templates, in their fixed order, cut to max_iterations.
C2_StoredOrderIsTemplateOrder ==
  \A a \in Agents :
    ((\E c \in Calls : ReturnedNormally(c) /\ calls[c].agent = a) /\ NotBusy(a))
      => StoredTexts(a) =
           [k \in 1..Expected(agent_data[a].config) |-> <<Templates[k], agent_data[a].config.goal>>]

\* The texts the provider client hands back in place of an exception.
FallbackPrefixes ==
  {"AI provider temporarily unavailable. Error: ", "Unexpected error occurred: ",
   "Task execution failed: "}

\* The logs of agent a after the step, beyond those it had before the step.
NewLogs(a) == SubSeq(agent_data'[a].logs, Len(agent_data[a].logs) + 1, Len(agent_data'[a].logs))

\* C3: when the provider call of a suspended execute fails (HTTP error,
\* network error, malformed body) and no run-level fault follows, the client
\* returns a fallback text instead of raising: the task becomes Completed
\* with that text as its result, no Error log is written, the run goes on to
\* its next task, and after its last task the agent is Completed and the
\* caller gets the 200 response.
C3_ProviderFailureContained ==
  [][\A c \in Calls : \A out \in FailingOutcomes :
       TaskDone(c, out, NoFault) =>
         LET a == calls[c].agent
             k == calls[c].task
             t == agent_data'[a].tasks[k]
             more == calls[c].i < Len(RunTasks(agent_data[a].config))
         IN /\ ~ClientCall(out).raised
            /\ t.status = "completed"
            /\ t.result = ClientCall(out).value
            /\ t.result # <<>> /\ t.result[1] \in FallbackPrefixes
            /\ \A j \in 1..Len(NewLogs(a)) : NewLogs(a)[j].log_type # "error"
            /\ calls'[c].resp.code # 500
            /\ more => calls'[c].pc = "awaiting" /\ calls'[c].i = calls[c].i + 1
            /\ ~more => /\ calls'[c].pc = "done"
                        /\ calls'[c].resp.code = 200
                        /\ agent_data'[a].status = "completed"]_vars

\* A run whose every provider call failed has returned normally: all its
\* tasks are Completed with the fallback text and the agent is Completed.
C3_Witness ==
  \E c \in Calls :
    /\ ReturnedNormally(c)
    /\ calls[c].mine # <<>>
    /\ agent_data[calls[c].agent].status = "completed"
    /\ \A j \in 1..Len(calls[c].mine) :
         LET t == agent_data[calls[c].agent].tasks[calls[c].mine[j]]
         IN t.status = "completed" /\ t.result[1] = "Task execution failed: "

\* The number of Error logs among the entries of a log sequence.
ErrorLogs(logs) == Cardinality({j \in 1..Len(logs) : logs[j].log_type = "error"})

\* The number of run-level Error logs ("Agent execution failed: ...").
RunErrorLogs(logs) ==
  Cardinality({j \in 1..Len(logs) :
                 logs[j].log_type = "error" /\ logs[j].msg = "Agent execution failed: "})

\* C4: when an exception escapes the client call for the current task of a
\* suspended execute (and no run-level fault follows), that task becomes
\* Failed with a failure message as its result, exactly one Error log, naming
\* the task, is appended, and the run goes on: the next task of the truncated
\* list is created, or after the last task the agent is Completed and the
\* caller gets the 200 response; and every execute that returns normally has
\* created min(max_iterations, 5) tasks, each Completed or Failed.
C4_TaskFaultIsContained ==
  [][\A c \in Calls :
       /\ TaskDone(c, "raise", NoFault) =>
            LET a == calls[c].agent
                k == calls[c].task
                t == agent_data'[a].tasks[k]
                list == RunTasks(agent_data[a].config)
                more == calls[c].i < Len(list)
            IN /\ t.status = "failed"
               /\ Len(t.result) > 1 /\ t.result[1] = "Task failed: "
               /\ ErrorLogs(NewLogs(a)) = 1
               /\ NewLogs(a)[1] = Log("error", "Task failed: ", agent_data[a].tasks[k].text,
                                      SubSeq(t.result, 2, Len(t.result)), 0)
               /\ more => /\ calls'[c].pc = "awaiting"
                          /\ calls'[c].i = calls[c].i + 1
                          /\ Len(agent_data'[a].tasks) = Len(agent_data[a].tasks) + 1
                          /\ calls'[c].task = Len(agent_data'[a].tasks)
                          /\ agent_data'[a].tasks[calls'[c].task] = NewTask(list[calls[c].i + 1])
               /\ ~more => /\ calls'[c].pc = "done"
                           /\ calls'[c].resp.code = 200
                           /\ agent_data'[a].status = "completed"
       /\ ReturnsNormally(c) =>
            LET a == calls'[c].agent
            IN /\ Len(calls'[c].mine) = Expected(agent_data'[a].config)
               /\ \A j \in 1..Len(calls'[c].mine) :
                    agent_data'[a].tasks[calls'[c].mine[j]].status \in {"completed", "failed"}]_vars

\* A run of five tasks whose first task Failed has returned normally: its
\* four later tasks were created and Completed, and the agent is Completed.
C4_Witness ==
  \E c \in Calls :
    LET a == calls[c].agent
    IN /\ ReturnedNormally(c)
       /\ Len(calls[c].mine) = 5
       /\ agent_data[a].status = "completed"
       /\ agent_data[a].tasks[calls[c].mine[1]].status = "failed"
       /\ \A j \in 2..5 : agent_data[a].tasks[calls[c].mine[j]].status = "completed"

\* This step is a segment of execute request c that a run-level fault ends.
RunFaultStep(c) ==
  \/ \E a \in AgentIds, fp \in IterationFaults : ExecEnter(c, a, fp)
  \/ \E out \in ProviderOutcomes \cup {"raise"}, fp \in IterationFaults \cup FinalFaults :
       TaskDone(c, out, fp)

\* s is a prefix of t.
IsPrefix(s, t) == Len(s) <= Len(t) /\ SubSeq(t, 1, Len(s)) = s

\* C5: when a run-level fault ends an execute, the agent's status is Failed,
\* exactly one run-level Error log is appended and it is the last log, the
\* caller gets the 500 response, the logs written before are kept in order,
\* the tasks stored before are kept in order (only the task whose provider
\* call had just returned is settled; at most the task being created when the
\* fault struck is added), and the request creates no task afterwards: a
\* request that has answered never acts again.
C5_RunFaultAborts ==
  [][\A c \in Calls :
       /\ RunFaultStep(c) =>
            LET a == calls'[c].agent
                old == agent_data[a]
                new == agent_data'[a]
            IN /\ new.status = "failed"
               /\ calls'[c].pc = "done"
               /\ calls'[c].resp.code = 500
               /\ RunErrorLogs(new.logs) = RunErrorLogs(old.logs) + 1
               /\ new.logs[Len(new.logs)].msg = "Agent execution failed: "
               /\ new.logs[Len(new.logs)].log_type = "error"
               /\ IsPrefix(old.logs, new.logs)
               /\ Len(new.tasks) \in {Len(old.tasks), Len(old.tasks) + 1}
               /\ \A j \in 1..Len(old.tasks) :
                    IF j = calls[c].task
                    THEN new.tasks[j].text = old.tasks[j].text
                         /\ new.tasks[j].status \in {"completed", "failed"}
                    ELSE new.tasks[j] = old.tasks[j]
       /\ calls[c].pc = "done" => calls'[c] = calls[c]]_vars

\* A run-level fault ended a run that had already completed a task: the
\* agent is Failed, the task is still stored, the last log is the Error log.
C5_Witness ==
  \E c \in Calls :
    LET a == calls[c].agent
    IN /\ calls[c].pc = "done"
       /\ calls[c].resp.code = 500
       /\ Len(calls[c].mine) >= 2
       /\ agent_data[a].tasks[calls[c].mine[1]].status = "completed"
       /\ agent_data[a].status = "failed"
       /\ agent_data[a].logs[Len(agent_data[a].logs)].msg = "Agent execution failed: "

\* This step is the entry of an execute request of agent a.
Entering(a) ==
  \E c \in Calls : calls[c].pc = "idle" /\ calls'[c].pc # "idle" /\ calls'[c].agent = a

\* This step is the exit (normal or by a run-level fault) of an execute
\* request of agent a that was suspended at its provider call.
Exiting(a) ==
  \E c \in Calls : calls[c].pc = "awaiting" /\ calls'[c].pc = "done" /\ calls[c].agent = a

\* C6: the agent's status follows Idle -> Running -> {Completed, Failed}: an
\* agent is created Idle; execute enters Running, and only from Idle,
\* Stopped, Failed or Completed (an entry segment that a run-level fault ends
\* leaves Failed behind); an exit writes Completed or Failed, from Running;
\* nothing else changes the status, and no step sets it to Stopped or Idle.
C6_StatusStateMachine ==
  [][/\ \A a \in DOMAIN agent_data' : a \notin Agents => agent_data'[a].status = "idle"
     /\ \A a \in Agents :
          LET s == agent_data[a].status
              s2 == agent_data'[a].status
          IN /\ Entering(a) => /\ s \in {"idle", "stopped", "failed", "completed"}
                               /\ s2 \in {"running", "failed"}
             /\ Exiting(a) => /\ s = "running"
                              /\ s2 \in {"completed", "failed"}
             /\ s2 # s => /\ Entering(a) \/ Exiting(a)
                          /\ s2 \notin {"idle", "stopped"}]_vars

\* C7: a task is created Running, never Pending; a Running task stays as it
\* is or becomes Completed or Failed; a Completed or Failed task (status,
\* result, text) never changes again; tasks are never removed or reordered.
C7_TaskSettlesOnce ==
  [][\A a \in Agents :
       LET old == agent_data[a].tasks
           new == agent_data'[a].tasks
       IN /\ Len(new) >= Len(old)
          /\ \A k \in 1..Len(new) :
               IF k > Len(old)
               THEN new[k].status = "running" /\ new[k].result = <<>>
               ELSE IF old[k].status \in {"completed", "failed"}
                    THEN new[k] = old[k]
                    ELSE /\ old[k].status = "running"
                         /\ new[k].text = old[k].text
                         /\ \/ new[k] = old[k]
                            \/ new[k].status \in {"completed", "failed"} /\ new[k].result # <<>>]_vars

\* An agent executed twice, one run after the other (the first run's final
\* log precedes the second run's first log): the first run's task Failed and
\* is still Failed after the second run created and Completed its own task.
C7_Witness ==
  \E a \in Agents :
    /\ Len(agent_data[a].tasks) = 2
    /\ agent_data[a].tasks[1].status = "failed"
    /\ agent_data[a].tasks[2].status = "completed"
    /\ Len(agent_data[a].logs) = 6
    /\ agent_data[a].logs[3].msg = "Agent execution completed successfully. Generated "
    /\ \A c \in Calls : calls[c].pc = "done" /\ calls[c].agent = a

\* The tasks of agent a that are Running.
RunningTasks(a) == {k \in 1..Len(agent_data[a].tasks) : agent_data[a].tasks[k].status = "running"}

\* C8: at most one task of an agent is Running, in every reachable state.
C8_OneRunningTaskPerAgent ==
  \A a \in Agents : Cardinality(RunningTasks(a)) <= 1

\* C9: when an execute call returns normally, the agent is Completed, none
\* of its stored tasks is Running, and execution_time is "{m}m {s}s" with
\* m = floor(elapsed / 60) and 0 <= s <= 59, elapsed being the seconds from
\* the recorded execution start to the return.
C9_NormalReturnIsSettled ==
  [][\A c \in Calls :
       ReturnsNormally(c) =>
         LET a == calls'[c].agent
             new == agent_data'[a]
             elapsed == now' - new.execution_start[1]
         IN /\ new.status = "completed"
            /\ \A k \in 1..Len(new.tasks) : new.tasks[k].status \in {"completed", "failed"}
            /\ Len(new.execution_time) = 2
            /\ new.execution_time[1] = elapsed \div 60
            /\ new.execution_time[2] \in 0..59
            /\ new.execution_time[1] * 60 + new.execution_time[2] = elapsed
            /\ calls'[c].resp.execution_time = new.execution_time]_vars

\* C10: an execute call never creates more tasks than the agent's
\* max_iterations, and never more than 5, whatever other execute calls do.
C10_CreatedTasksBounded ==
  \A c \in Calls :
    calls[c].agent \in Agents =>
      LET cfg == agent_data[calls[c].agent].config
      IN /\ Len(calls[c].mine) <= cfg.max_iterations
         /\ Len(calls[c].mine) <= 5
         /\ calls[c].i <= Expected(cfg)

\* Two execute calls of one agent with max_iterations = 6 ran interleaved:
\* each created tasks, and one of them has created all its five.
C10_Witness ==
  \E c1 \in Calls, c2 \in Calls :
    /\ c1 # c2
    /\ calls[c1].agent \in Agents
    /\ calls[c1].agent = calls[c2].agent
    /\ agent_data[calls[c1].agent].config.max_iterations = 6
    /\ Len(calls[c1].mine) = 5
    /\ calls[c2].mine # <<>>
    /\ calls[c2].mine[1] < calls[c1].mine[5]
    /\ calls[c1].mine[1] < calls[c2].mine[1]

\* ------------------------------------------ creates, summaries and exports
\* C11: creating an agent whose provider is not in the registry, or whose
\* model is not in the provider's list, is answered 400 and leaves the store
\* as it was: no record is added, no task and no log is written.
C11_InvalidCreateRejected ==
  [][\A req \in BadRequests :
       CreateRejected(req) => reply'.code = 400 /\ agent_data' = agent_data]_vars

\* This step answers a request: the first one since the last step of an
\* execute, or the repetition of that one.
Answering == reply'.op # "none" /\ (reply.op = "none" \/ (reply'.again /\ ~reply.again))

\* This step answers a summary request, a renderer call or a download.
ReadStep == Answering /\ reply'.op \in {"summarize", "summary", "export", "download"}

\* C12: summary generation and the three renderers leave the store as it is:
\* the same agents, and for every agent the same config, status, tasks and
\* logs, whether or not the identifier asked for is stored and whatever the
\* flags.
C12_ReadsLeaveStoreUnchanged ==
  [][ReadStep =>
       /\ DOMAIN agent_data' = DOMAIN agent_data
       /\ \A a \in Agents :
            /\ agent_data'[a].config = agent_data[a].config
            /\ agent_data'[a].status = agent_data[a].status
            /\ agent_data'[a].tasks = agent_data[a].tasks
            /\ agent_data'[a].logs = agent_data[a].logs]_vars

\* A CSV export without its logs was rendered for an agent that has a task
\* with a result longer than the CSV keeps, and a summary was not asked.
C12_Witness ==
  /\ reply.op = "export" /\ reply.format = "csv" /\ ~reply.flags.include_logs
  /\ reply.agent \in Agents
  /\ \E k \in 1..Len(agent_data[reply.agent].tasks) :
       Len(Str(agent_data[reply.agent].tasks[k].result)) > CsvResultChars

\* What a renderer answers for an unknown identifier.
NotFound(format) ==
  IF format = "json" THEN << <<"error", "Agent not found">> >> ELSE << "Error: Agent not found" >>

\* An export without its timestamp: the export_timestamp item (JSON), the
\* banner row (CSV), the fourth line (text).
WithoutTimestamp(format, body) ==
  CASE format = "json" -> SelectSeq(body, LAMBDA item : item[1] # "export_timestamp")
    [] format = "csv" -> Tail(body)
    [] format = "txt" -> SubSeq(body, 1, 3) \o SubSeq(body, 5, Len(body))

\* C13: when a stored agent is exported twice with the same format and flags
\* and no step of an execute in between, the two outputs are the same but
\* for the export timestamp (JSON) or the generated-on line (CSV, text).
C13_ExportIsIdempotent ==
  (/\ reply.op = "export" /\ reply.again
   /\ reply.before # NotFound(reply.format))
  => WithoutTimestamp(reply.format, reply.body) = WithoutTimestamp(reply.format, reply.before)

\* An agent that has run was exported at two different times: the two
\* outputs differ, in the timestamp only.
C13_Witness ==
  /\ reply.op = "export" /\ reply.again
  /\ reply.agent \in Agents
  /\ agent_data[reply.agent].execution_time # <<>>
  /\ reply.before # NotFound(reply.format)
  /\ reply.body # reply.before
  /\ WithoutTimestamp(reply.format, reply.body) = WithoutTimestamp(reply.format, reply.before)

\* C14: a renderer called with an unknown identifier returns: the JSON
\* renderer an object whose error item is "Agent not found", the CSV and the
\* text renderer the plain message.
C14_ExportOfUnknownAgent ==
  [][(Answering /\ reply'.op = "export" /\ reply'.agent \notin Agents)
     => /\ reply'.code = 0
        /\ reply'.format = "json" =>
             /\ Len(reply'.body) = 1
             /\ Len(reply'.body[1]) = 2
             /\ reply'.body[1][1] = "error"
             /\ reply'.body[1][2] = "Agent not found"
        /\ reply'.format # "json" =>
             /\ Len(reply'.body) = 1
             /\ reply'.body[1] = "Error: Agent not found"]_vars

\* The JSON renderer was called with an identifier that is not stored, while
\* another agent is.
C14_Witness ==
  /\ reply.op = "export" /\ reply.format = "json"
  /\ reply.agent \notin Agents /\ Agents # {}
  /\ Len(reply.body) = 1 /\ reply.body[1][1] = "error"

\* The last answer is the summary of a stored agent.
HasSummary ==
  /\ reply.op \in {"summarize", "summary"}
  /\ reply.code # 404
  /\ reply.body # <<>>

\* The tasks the last answer's summary was made from.
SummarizedTasks == agent_data[reply.agent].tasks

\* The positions of the tasks with a status.
WithStatus(tasks, status) == {k \in 1..Len(tasks) : tasks[k].status = status}

Abs(x) == IF x < 0 THEN -x ELSE x

\* C15: in the summary of a stored agent total_tasks is the number of stored
\* tasks, completed_tasks the number of them that are Completed, failed_tasks
\* the number that are Failed, and success_rate is completed/total*100 to one
\* decimal (a number of tenths within half a tenth of it), "0.0%" for an
\* agent without tasks.
C15_SummaryCounts ==
  HasSummary =>
    LET es == Get(reply.body, "execution_summary")
        total == Len(SummarizedTasks)
        completed == Cardinality(WithStatus(SummarizedTasks, "completed"))
        failed == Cardinality(WithStatus(SummarizedTasks, "failed"))
    IN /\ Get(es, "total_tasks") = total
       /\ Get(es, "completed_tasks") = completed
       /\ Get(es, "failed_tasks") = failed
       /\ IF total = 0 THEN Get(es, "success_rate") = "0.0%"
          ELSE \E tenths \in {(1000 * completed) \div total, (1000 * completed) \div total + 1} :
                 /\ 2 * Abs(tenths * total - 1000 * completed) <= total
                 /\ Get(es, "success_rate")
                      = Dec(tenths \div 10) \o "." \o Dec(tenths % 10) \o "%"

\* The summary of an agent with three tasks, two of them Completed: 66.7%.
C15_Witness ==
  /\ HasSummary
  /\ Len(SummarizedTasks) = 3
  /\ Get(Get(reply.body, "execution_summary"), "completed_tasks") = 2
  /\ Get(Get(reply.body, "execution_summary"), "success_rate") = "66.7%"

\* The positions of the tasks that are Completed with a non-empty result.
FindingPositions(tasks) ==
  {k \in 1..Len(tasks) : tasks[k].status = "completed" /\ Len(Str(tasks[k].result)) > 0}

\* The j-th least member of a set of numbers.
Nth(S, j) == CHOOSE k \in S : Cardinality({m \in S : m < k}) = j - 1

\* C16: the key findings of a summary are the tasks that are Completed with
\* a non-empty result, one entry each, in stored order; the result of an
\* entry is the first 200 characters of the task's result followed by "..."
\* when the result is longer than 200 characters, and the result itself
\* otherwise.
C16_KeyFindings ==
  HasSummary =>
    LET kf == Get(reply.body, "key_findings")
        P == FindingPositions(SummarizedTasks)
    IN /\ Len(kf) = Cardinality(P)
       /\ \A j \in 1..Len(kf) :
            LET task == SummarizedTasks[Nth(P, j)]
                full == Str(task.result)
                shown == Get(kf[j], "result")
            IN /\ Get(kf[j], "task") = Str(task.text)
               /\ Len(full) > FindingChars =>
                    /\ Len(shown) = FindingChars + 3
                    /\ SubSeq(shown, 1, FindingChars) = SubSeq(full, 1, FindingChars)
                    /\ SubSeq(shown, FindingChars + 1, FindingChars + 3) = "..."
               /\ Len(full) <= FindingChars => shown = full

\* A summary whose key findings have an entry that was cut and leave out a
\* task (one that is still Running).
C16_Witness ==
  /\ HasSummary
  /\ Len(Get(reply.body, "key_findings")) < Len(SummarizedTasks)
  /\ \E j \in 1..Len(Get(reply.body, "key_findings")) :
       Len(Get(Get(reply.body, "key_findings")[j], "result")) = FindingChars + 3

Review == "Review failed tasks and adjust agent parameters"
Reduce == "Consider reducing task complexity or adjusting AI model parameters"
WellDone == "Agent performed well. Consider increasing task complexity for next run"

\* The members of a sequence.
Range(s) == {s[k] : k \in 1..Len(s)}

\* C17: the recommendations of a summary hold the 'review failed tasks' text
\* iff a task is Failed, the 'reduce task complexity' text iff the success
\* rate is below 50%, the 'performed well' text iff it is at least 80%, each
\* once, and nothing else; the success rate of an agent without tasks is 0.
C17_Recommendations ==
  HasSummary =>
    LET recs == Get(reply.body, "recommendations")
        total == Len(SummarizedTasks)
        completed == Cardinality(WithStatus(SummarizedTasks, "completed"))
        failed == Cardinality(WithStatus(SummarizedTasks, "failed"))
        below50 == total = 0 \/ completed * 100 < 50 * total
        atLeast80 == total > 0 /\ completed * 100 >= 80 * total
    IN /\ Review \in Range(recs) <=> failed > 0
       /\ Reduce \in Range(recs) <=> below50
       /\ WellDone \in Range(recs) <=> atLeast80
       /\ Range(recs) \subseteq {Review, Reduce, WellDone}
       /\ Len(recs) = Cardinality(Range(recs))

\* The summary of a run of five tasks, one Failed and four Completed (80%):
\* two recommendations, 'review failed tasks' and 'performed well'.
C17_Witness ==
  /\ HasSummary
  /\ Len(SummarizedTasks) = 5
  /\ Get(reply.body, "recommendations") = <<Review, WellDone>>

StepOf(c) == calls'[c] # calls[c]

\* C19: a step of an execute of agent A leaves every other agent as it is
\* (status, tasks, logs and all), also while executes of other agents are in
\* flight; what the step creates goes to A: the task it creates is the new
\* last task of A, and A's logs are only appended to.
C19_ExecuteTouchesOnlyItsAgent ==
  [][\A c \in Calls :
       StepOf(c) =>
         LET a == calls'[c].agent
         IN /\ DOMAIN agent_data' = DOMAIN agent_data
            /\ \A b \in Agents : b # a => agent_data'[b] = agent_data[b]
            /\ a \in Agents =>
                 /\ IsPrefix(agent_data[a].logs, agent_data'[a].logs)
                 /\ Len(agent_data'[a].tasks) - Len(agent_data[a].tasks)
                      = Len(calls'[c].mine) - Len(calls[c].mine)
                 /\ \A j \in (Len(calls[c].mine) + 1)..Len(calls'[c].mine) :
                      calls'[c].mine[j] = Len(agent_data'[a].tasks)]_vars

\* Two executes of two agents interleaved: the second one started and ended
\* while the first was suspended, and each agent stores the tasks of its own
\* execute only.
C19_Witness ==
  /\ calls[1].pc = "awaiting" /\ calls[2].pc = "done" /\ calls[2].resp.code = 200
  /\ calls[1].agent # calls[2].agent
  /\ Len(agent_data[calls[1].agent].tasks) = Len(calls[1].mine)
  /\ Len(agent_data[calls[2].agent].tasks) = Len(calls[2].mine)
  /\ Len(calls[2].mine) = 5

\* C20: a stored agent stays stored and keeps its configuration (name, goal,
\* provider, model, credential, max_iterations, temperature) in every step;
\* its status, tasks and logs change only in a step of an execute of it.
C20_ConfigIsImmutable ==
  [][\A a \in Agents :
       /\ a \in DOMAIN agent_data'
       /\ agent_data'[a].config = agent_data[a].config
       /\ (\/ agent_data'[a].status # agent_data[a].status
           \/ agent_data'[a].tasks # agent_data[a].tasks
           \/ agent_data'[a].logs # agent_data[a].logs)
          => \E c \in Calls : StepOf(c) /\ calls'[c].agent = a]_vars

\* The first agent has run to Completed with its configuration of six
\* iterations, and a second agent was created after it.
C20_Witness ==
  /\ Len(agent_data) = 2
  /\ agent_data[1].status = "completed"
  /\ agent_data[1].config.max_iterations = 6
  /\ Len(agent_data[1].tasks) = 5
  /\ agent_data[2].status = "idle"


\* The starting log of a task, main.py:605-611.
StartingLog(text) == Log("info", "Starting task: ", text, <<>>, 0)

\* The log is the settling log of the task with this text: the completion
\* log of main.py:632-638 or the error log of main.py:648-654.
IsSettlingLog(log, text) ==
  /\ log.text = text
  /\ \/ log.log_type = "info" /\ log.msg = "Completed task: "
     \/ log.log_type = "error" /\ log.msg = "Task failed: "

\* The number of settling logs among the entries of a log sequence.
SettlingLogs(logs) ==
  Cardinality({j \in 1..Len(logs) : logs[j].msg \in {"Completed task: ", "Task failed: "}})

\* The final log of a run that returns normally, main.py:669-675.
IsFinalLog(log) ==
  log.log_type = "info" /\ log.msg = "Agent execution completed successfully. Generated "

\* The number of logs the protocol lets execute request c have appended so
\* far: 2n+1 once a run of n tasks has returned normally, and 2i-1 while the
\* run waits for the provider's answer for its i-th task.
ProtocolLogs(c) ==
  CASE calls[c].pc = "awaiting" -> 2 * calls[c].i - 1
    [] calls[c].pc = "done" /\ calls[c].resp.code = 200 -> 2 * Len(calls[c].mine) + 1
    [] OTHER -> 0

\* The same, summed over the execute requests 1..c of agent a.
RECURSIVE ProtocolLogsOf(_, _)
ProtocolLogsOf(a, c) ==
  IF c = 0 THEN 0
  ELSE (IF calls[c].agent = a THEN ProtocolLogs(c) ELSE 0) + ProtocolLogsOf(a, c - 1)

\* No execute request of agent a was ended by a run-level fault.
NoRunFault(a) == \A c \in Calls : calls[c].agent = a => calls[c].resp.code # 500

\* The logs of the agent are those the protocol counts.
LogCountFollowsProtocol ==
  \A a \in Agents : NoRunFault(a) => Len(agent_data[a].logs) = ProtocolLogsOf(a, MaxCalls)

MaxTasks == MaxCalls * Len(Templates)

\* Every execute request that waits for the provider finishes.
ExecuteFinishes == \A c \in Calls : []<>(calls[c].pc # "awaiting")

\* No agent stays Running forever: it is Completed or Failed again and again
\* (or was never executed).
AgentSettles ==
  \A a \in AgentIds :
    []<>(a \in Agents => agent_data[a].status \in {"idle", "completed", "failed"})

\* No task stays Running forever.
TaskSettles ==
  \A a \in AgentIds : \A k \in 1..MaxTasks :
    []<>((a \in Agents /\ k <= Len(agent_data[a].tasks))
           => agent_data[a].tasks[k].status \in {"completed", "failed"})

\* C22: given that every provider call ends, every execute request that set
\* the agent's status to Running finishes, no agent stays Running forever,
\* and no task stays Running forever.
C22_ExecuteTerminates == ExecuteFinishes /\ AgentSettles /\ TaskSettles


\* C23: in every reachable state, concurrent executes of one agent included,
\* an agent that is Completed has no Running task, and an agent that has a
\* Running task is Running.
C23_StatusMatchesTasks ==
  \A a \in Agents :
    /\ agent_data[a].status = "completed" => RunningTasks(a) = {}
    /\ RunningTasks(a) # {} => agent_data[a].status = "running"

\* The tasks of execute request c (those it created) that now have status s.
SettledBy(c, s) ==
  {j \in 1..Len(calls'[c].mine) :
     agent_data'[calls'[c].agent].tasks[calls'[c].mine[j]].status = s}

\* C24: when an execute call returns normally, the count in its final Info
\* log and the tasks_completed of its response are the number of tasks this
\* call settled as Completed, tasks_failed is the number it settled as
\* Failed, and the two add up to min(max_iterations, 5), whether the call is
\* the first one on the agent or a later one.
C24_ReportedCounts ==
  [][\A c \in Calls :
       ReturnsNormally(c) =>
         LET a == calls'[c].agent
             logs == agent_data'[a].logs
             resp == calls'[c].resp
         IN /\ logs[Len(logs)].count = Cardinality(SettledBy(c, "completed"))
            /\ resp.tasks_completed = Cardinality(SettledBy(c, "completed"))
            /\ resp.tasks_failed = Cardinality(SettledBy(c, "failed"))
            /\ resp.tasks_completed + resp.tasks_failed = Expected(agent_data'[a].config)]_vars


\* The two records differ in the api_key and in nothing else.
DiffersOnlyInKey(x, y) ==
  /\ x.config.api_key # y.config.api_key
  /\ [x EXCEPT !.config.api_key = ""] = [y EXCEPT !.config.api_key = ""]

\* The body of the answer to the request reply' answers, from the store in
\* which the record of agent a is the record of agent b.
BodyWith(a, b) ==
  LET r == reply'
  IN CASE r.op = "agents" ->
            [k \in 1..Len(agent_data) |->
               AgentItems(k, IF k = a THEN agent_data[b] ELSE agent_data[k])]
       [] r.op = "agent" -> AgentItems(a, agent_data[b])
       [] r.op = "tasks" ->
            [idx \in 1..Len(agent_data[b].tasks) |-> TaskItems(agent_data[b].tasks[idx])]
       [] r.op = "logs" ->
            [idx \in 1..Len(agent_data[b].logs) |-> LogItems(agent_data[b].logs[idx])]
       [] r.op = "summary" -> generate_execution_summary(b)
       [] r.op = "export" -> Render(r.format, b, r.flags, now)
       [] r.op = "download" ->
            << Render(r.format, b, r.flags, now), MediaType[r.format],
               Lower(Replace(agent_data[b].config.name, " ", "_"))
                 \o "_export_" \o Dec(now) \o "." \o r.format >>

\* C25: no read or export discloses the stored api_key: the answer of a read
\* endpoint, of the summary and of a JSON, CSV or text export (whatever the
\* inclusion flags) is the answer the same request gets from a store that
\* differs only in the agent's api_key.
C25_KeyIsNotDisclosed ==
  [][Answering =>
       \A a \in Agents, b \in Agents :
         (DiffersOnlyInKey(agent_data[a], agent_data[b])
            /\ (reply'.agent = a \/ reply'.op = "agents"))
           => reply'.body = BodyWith(a, b)]_vars

====
